---- MODULE Spec2Model ----
(***************************************************************************)
(* Model of gmadrid/fpc: grid detection (src/src/grid_finder.rs) and the   *)
(* per-cell image pipeline (src/src/lib.rs).                               *)
(*                                                                         *)
(* Images are records [width, height, px] with px a function from <<x, y>> *)
(* to a pixel.  A pixel is the number 2*colour + alpha, alpha in {0, 1}:   *)
(* 0 is Rgba([0,0,0,0]), an even number > 0 a coloured pixel of alpha 0,   *)
(* an odd number an opaque pixel.  transparent_pixel tests alpha == 0      *)
(* only, so one bit of alpha is all the scans can observe.                 *)
(*                                                                         *)
(* Results are records: [tag |-> "Ok", val |-> v], [tag |-> "Err", err |-> *)
(* e, edge |-> name] and [tag |-> "Panic"].  u32 arithmetic overflow       *)
(* panics when the build has overflow checks (debug) and wraps otherwise   *)
(* (release): overflow_checks is the build, chosen in Init.                *)
(***************************************************************************)
EXTENDS Integers, Sequences, FiniteSets, TLC

VARIABLES
    img,              \* the source image
    overflow_checks,  \* TRUE: debug build (overflow panics), FALSE: release
    args,             \* [aspect_ratio, max_width] of extract_images_from_image_grid
    pc,               \* position in extract_images_from_image_grid
    located,          \* find_grid_cells: result of find_bordered_bounds
    widths,           \* find_grid_cells: result of find_border_widths
    cells,            \* result of find_grid_cells
    debug_written,    \* DEBUG.png has been saved
    files,            \* cell files saved so far (their indices, in order)
    result,           \* what extract_images_from_image_grid returned
    bbox,             \* result of find_bounding_boxes
    radius,           \* corner radius given to round_the_corners
    rounded,          \* result of round_the_corners
    fit_in,           \* [width, height, max_width, aspect_ratio] of the fitter
    fit_out,          \* new_bounds computed by scale_to_constraints
    h_blank, v_blank, \* blank predicates handed to find_grid_line_ranges
    h_ranges, v_ranges, \* the ranges it returned
    rects             \* the cell rectangles generated from them

vars == <<img, overflow_checks, args, pc, located, widths, cells, debug_written,
          files, result, bbox, radius, rounded, fit_in, fit_out,
          h_blank, v_blank, h_ranges, v_ranges, rects>>

-----------------------------------------------------------------------------
(* Bounds of the model *)

MaxPixels == 9      \* arbitrary images have at most this many pixels
MaxT == 1           \* grid sheets: line thickness 1..MaxT
MaxCell == 2        \* grid sheets: cell interior 1..MaxCell on each axis
MaxMargin == 2      \* grid sheets: transparent margin 0..MaxMargin
MaxDim == 5         \* corner rounder: images up to MaxDim x MaxDim
MaxAvail == 6       \* fitter: available width and height 1..MaxAvail
MaxRatioQ == 10     \* fitter: aspect ratios 1/4 .. MaxRatioQ/4
MaxLen == 5         \* segmenter: scanned ranges of length 0..MaxLen

-----------------------------------------------------------------------------
(* Values *)

None == [tag |-> "None"]
Ok(v) == [tag |-> "Ok", val |-> v]
Err(e) == [tag |-> "Err", err |-> e, edge |-> ""]
Panic == [tag |-> "Panic"]

Px(colour, alpha) == 2 * colour + alpha
Alpha(p) == p % 2
Clear == 0
Ink == Px(1, 1)

Min(a, b) == IF a <= b THEN a ELSE b

Rect(x, y, w, h) == [x |-> x, y |-> y, width |-> w, height |-> h]

\* The iterator a..b of Rust: a, a+1, .., b-1 (empty when a >= b).
Range(a, b) == [i \in 1..(IF b > a THEN b - a ELSE 0) |-> a + i - 1]

\* Iterator::rev
Rev(s) == [i \in 1..Len(s) |-> s[Len(s) + 1 - i]]

Coords(w, h) == (0..(w - 1)) \X (0..(h - 1))

Image(w, h, px) == [width |-> w, height |-> h, px |-> px]

\* Iterator::find: the first element of s at which the predicate pred (a
\* function on the elements) holds, as a 1-element sequence; <<>> if none.
RECURSIVE IterFind(_, _, _)
IterFind(s, pred, i) ==
    IF i > Len(s) THEN <<>>
    ELSE IF pred[s[i]] THEN <<s[i]>>
    ELSE IterFind(s, pred, i + 1)

-----------------------------------------------------------------------------
(* src/src/lib.rs *)

transparent_pixel(image, x, y) == Alpha(image.px[<<x, y>>]) = 0

-----------------------------------------------------------------------------
(* src/src/grid_finder.rs *)

\* range.flat_map(|i| if predicate(i) { Some(i) } else { None })
find_pixels(range, predicate) == SelectSeq(range, LAMBDA i : predicate[i])

\* Mutant of group_step: extends the last range when i is one past its end.
group_step_gap(acc, i) ==
    IF Len(acc) > 0
    THEN IF acc[Len(acc)].end + 1 = i
         THEN [acc EXCEPT ![Len(acc)].end = i + 1]
         ELSE Append(acc, [start |-> i, end |-> i + 1])
    ELSE Append(acc, [start |-> i, end |-> i + 1])

\* The fold step of group_sequences.
group_step(acc, i) ==
    IF Len(acc) > 0
    THEN IF acc[Len(acc)].end = i
         THEN [acc EXCEPT ![Len(acc)].end = @ + 1]
         ELSE Append(acc, [start |-> i, end |-> i + 1])
    ELSE Append(acc, [start |-> i, end |-> i + 1])

RECURSIVE group_fold(_, _, _)
group_fold(s, k, acc) ==
    IF k > Len(s) THEN acc ELSE group_fold(s, k + 1, group_step(acc, s[k]))

group_sequences(iter) == group_fold(iter, 1, <<>>)

find_grid_line_ranges(range, is_blank) ==
    group_sequences(find_pixels(range, [i \in DOMAIN is_blank |-> ~is_blank[i]]))

find_bordered_bounds(image) ==
    LET center_x == image.width \div 2
        center_y == image.height \div 2
        rowInk == [xx \in 0..(image.width - 1) |-> ~transparent_pixel(image, xx, center_y)]
        colInk == [yy \in 0..(image.height - 1) |-> ~transparent_pixel(image, center_x, yy)]
        left == IterFind(Range(0, image.width), rowInk, 1)
        right == IterFind(Rev(Range(0, image.width)), rowInk, 1)
        top == IterFind(Range(0, image.height), colInk, 1)
        bottom == IterFind(Rev(Range(0, image.height)), colInk, 1)
    IN  IF left = <<>> THEN [tag |-> "Err", err |-> "MissingBorder", edge |-> "top"]
        ELSE IF right = <<>> THEN [tag |-> "Err", err |-> "MissingBorder", edge |-> "right"]
        ELSE IF top = <<>> THEN [tag |-> "Err", err |-> "MissingBorder", edge |-> "top"]
        ELSE IF bottom = <<>> THEN [tag |-> "Err", err |-> "MissingBorder", edge |-> "bottom"]
        ELSE Ok(Rect(left[1], top[1], right[1] - left[1] + 1, bottom[1] - top[1] + 1))

scan_range(range, predicate) ==
    LET f == IterFind(range, predicate, 1)
    IN  IF f = <<>> THEN Err("BlankNotFound") ELSE Ok(f[1])

\* h - scan - 1 and w - scan - 1 are u32 subtractions: with overflow checks
\* an underflow panics; without, the value wraps.  A wrapped value v - 2^32
\* is kept as the negative number it is congruent to (TLC's integers are
\* 32-bit, and the callers never compare or index with it).
find_border_widths(image, bounds, checks) ==
    LET x == bounds.x
        y == bounds.y
        w == bounds.width
        h == bounds.height
        center_x == w \div 2
        center_y == h \div 2
        colBlank == [yy \in y..(y + h - 1) |-> transparent_pixel(image, center_x, yy)]
        rowBlank == [xx \in x..(x + w - 1) |-> transparent_pixel(image, xx, center_y)]
        top == scan_range(Range(y, y + h), colBlank)
        bottom == scan_range(Rev(Range(y, y + h)), colBlank)
        left == scan_range(Range(x, x + w), rowBlank)
        right == scan_range(Rev(Range(x, x + w)), rowBlank)
    IN  IF top.tag # "Ok" THEN top
        ELSE IF bottom.tag # "Ok" THEN bottom
        ELSE IF checks /\ h - bottom.val - 1 < 0 THEN Panic
        ELSE IF left.tag # "Ok" THEN left
        ELSE IF right.tag # "Ok" THEN right
        ELSE IF checks /\ w - right.val - 1 < 0 THEN Panic
        ELSE Ok(<<left.val, top.val, w - right.val - 1, h - bottom.val - 1>>)

\* Itertools::tuple_windows: the consecutive pairs of s.
tuple_windows(s) == [i \in 1..(IF Len(s) > 0 THEN Len(s) - 1 ELSE 0) |-> <<s[i], s[i + 1]>>]

\* The inner loop of find_grid_cells (lines 61-70), from the j-th pair on.
RECURSIVE push_row(_, _, _, _)
push_row(acc, tb, vwin, j) ==
    IF j > Len(vwin) THEN acc
    ELSE LET top == tb[1]
             bottom == tb[2]
             left == vwin[j][1]
             right == vwin[j][2]
             x == left.end
             y == top.end
         IN  push_row(Append(acc, Rect(x, y, right.start - x, bottom.start - y)), tb, vwin, j + 1)

\* The outer loop (lines 60-71), from the i-th pair on.
RECURSIVE push_rows(_, _, _, _)
push_rows(acc, hwin, vwin, i) ==
    IF i > Len(hwin) THEN acc
    ELSE push_rows(push_row(acc, hwin[i], vwin, 1), hwin, vwin, i + 1)

\* Mutant of grid_rects: the loops nested the other way round (column-major).
grid_rects_colmajor(horiz, vert) ==
    LET cm == push_rows(<<>>, tuple_windows(vert), tuple_windows(horiz), 1)
    IN  [k \in DOMAIN cm |-> Rect(cm[k].y, cm[k].x, cm[k].height, cm[k].width)]

\* Lines 59-72 of find_grid_cells.
grid_rects(horiz, vert) == push_rows(<<>>, tuple_windows(horiz), tuple_windows(vert), 1)

\* The grid-line scans of find_grid_cells (lines 51-58).
vert_grid_line_ranges(image, bounds, inside_y) ==
    find_grid_line_ranges(Range(bounds.x, bounds.x + bounds.width),
        [xx \in bounds.x..(bounds.x + bounds.width - 1) |-> transparent_pixel(image, xx, inside_y)])

horiz_grid_line_ranges(image, bounds, inside_x) ==
    find_grid_line_ranges(Range(bounds.y, bounds.y + bounds.height),
        [yy \in bounds.y..(bounds.y + bounds.height - 1) |-> transparent_pixel(image, inside_x, yy)])

\* find_grid_cells, given the results of its first two calls.  The width and
\* height of inside_border_bounds are u32 subtractions that can underflow
\* (panic with overflow checks); their values are not used afterwards.
grid_cells_from(image, bb, bw, checks) ==
    IF bb.tag # "Ok" THEN bb
    ELSE IF bw.tag # "Ok" THEN bw
    ELSE LET bounds == bb.val
             left_thickness == bw.val[1]
             top_thickness == bw.val[2]
             right_thickness == bw.val[3]
             bottom_thickness == bw.val[4]
             under(a, b, c) == a - b < 0 \/ (a - b) - c < 0
         IN  IF checks /\ (under(bounds.width, left_thickness, right_thickness)
                           \/ under(bounds.height, top_thickness, bottom_thickness))
             THEN Panic
             ELSE Ok(grid_rects(horiz_grid_line_ranges(image, bounds, left_thickness),
                                vert_grid_line_ranges(image, bounds, top_thickness)))

border_widths_of(image, bb, checks) ==
    IF bb.tag = "Ok" THEN find_border_widths(image, bb.val, checks) ELSE None

\* Mutant of find_grid_cells: a border that is not found yields no cells
\* instead of the error.
find_grid_cells_lenient(image, checks) ==
    LET bb == find_bordered_bounds(image)
    IN  IF bb.tag = "Err" THEN Ok(<<>>)
        ELSE grid_cells_from(image, bb, border_widths_of(image, bb, checks), checks)

find_grid_cells(image, checks) ==
    LET bb == find_bordered_bounds(image)
    IN  grid_cells_from(image, bb, border_widths_of(image, bb, checks), checks)

-----------------------------------------------------------------------------
(* src/src/lib.rs: the per-cell pipeline *)

\* DynamicImage::crop_imm on a region inside the image.
crop_imm(image, x, y, w, h) ==
    Image(w, h, [p \in Coords(w, h) |-> image.px[<<x + p[1], y + p[2]>>]])

\* A canvas of the background colour with the crop overlaid at (0, 0): a
\* source pixel of alpha 0 leaves the background, an opaque one replaces it.
make_sub_image(image, rect, background_color) ==
    LET sub_image == crop_imm(image, rect.x, rect.y, rect.width, rect.height)
    IN  Image(rect.width, rect.height,
              [p \in Coords(rect.width, rect.height) |->
                  IF Alpha(sub_image.px[p]) = 0 THEN background_color ELSE sub_image.px[p]])

\* Mutant of new_bounds: the height rounded to nearest instead of truncated.
new_bounds_rounding(bounds, aspect_ratio, max_width) ==
    LET width == bounds[3]
        height == bounds[4]
        maybe_width0 == Min(width, max_width)
        maybe_height0 == (2 * maybe_width0 * aspect_ratio[1] + aspect_ratio[2]) \div (2 * aspect_ratio[2])
        shrink == maybe_height0 > height
        maybe_width == IF shrink THEN 0 ELSE maybe_width0
        maybe_height == IF shrink THEN 0 ELSE maybe_height0
    IN  Rect(bounds[1] + (width - maybe_width) \div 2, bounds[2] + (height - maybe_height) \div 2,
             maybe_width, maybe_height)

\* Lines 160-174 of scale_to_constraints: new_bounds.  aspect_ratio is the
\* f64 num/den, den a power of two, so that width * aspect_ratio is exact in
\* f64; `as u32` truncates it toward zero.
new_bounds(bounds, aspect_ratio, max_width) ==
    LET x == bounds[1]
        y == bounds[2]
        width == bounds[3]
        height == bounds[4]
        maybe_width0 == Min(width, max_width)
        maybe_height0 == (maybe_width0 * aspect_ratio[1]) \div aspect_ratio[2]
        shrink == maybe_height0 > height
        scale == height \div (IF shrink THEN maybe_height0 ELSE 1)
        maybe_width == IF shrink THEN maybe_width0 * scale ELSE maybe_width0
        maybe_height == IF shrink THEN maybe_height0 * scale ELSE maybe_height0
    IN  Rect(x + (width - maybe_width) \div 2, y + (height - maybe_height) \div 2,
             maybe_width, maybe_height)

scale_to_constraints(image, bounds, aspect_ratio, max_width) ==
    LET nb == new_bounds(bounds, aspect_ratio, max_width)
    IN  crop_imm(image, nb.x, nb.y, nb.width, nb.height)

\* Mutant of corner_cut: >= in place of > in the distance test.
corner_cut_inclusive(x_range, y_range, corner_radius_px, center_point) ==
    {p \in {x_range[i] : i \in DOMAIN x_range} \X {y_range[i] : i \in DOMAIN y_range} :
        (p[1] - center_point[1]) * (p[1] - center_point[1])
        + (p[2] - center_point[2]) * (p[2] - center_point[2]) >= corner_radius_px * corner_radius_px}

\* The pixels round_a_corner clears: those of x_range x y_range farther than
\* corner_radius_px from center_point.  x_range and y_range are the
\* iterators (sequences), center_point a pair.
corner_cut(x_range, y_range, corner_radius_px, center_point) ==
    LET squared == corner_radius_px * corner_radius_px
        xs == {x_range[i] : i \in DOMAIN x_range}
        ys == {y_range[i] : i \in DOMAIN y_range}
    IN  {p \in xs \X ys :
            LET x_offset == p[1] - center_point[1]
                y_offset == p[2] - center_point[2]
            IN  x_offset * x_offset + y_offset * y_offset > squared}

\* round_a_corner on a tagged image: put_pixel panics outside the image.
round_a_corner(r, x_range, y_range, corner_radius_px, center_point) ==
    IF r.tag # "Ok" THEN r
    ELSE LET image == r.val
             cut == corner_cut(x_range, y_range, corner_radius_px, center_point)
         IN  IF \E p \in cut : p[1] >= image.width \/ p[2] >= image.height
             THEN Panic
             ELSE Ok([image EXCEPT !.px = [p \in DOMAIN image.px |->
                                              IF p \in cut THEN Clear ELSE image.px[p]]])

\* x + width - corner_radius_px and y + height - corner_radius_px are u32:
\* an underflow panics with overflow checks and wraps without, to a start
\* above every coordinate, which makes the range it starts empty.
round_the_corners(image, corner_radius_px, checks) ==
    LET x == 0
        y == 0
        width == image.width
        height == image.height
        under_x == x + width < corner_radius_px
        under_y == y + height < corner_radius_px
        far_x == x + width - corner_radius_px
        far_y == y + height - corner_radius_px
        right_range == IF under_x THEN <<>> ELSE Range(far_x, x + width)
        bottom_range == IF under_y THEN <<>> ELSE Range(far_y, y + height)
        top_left_center == <<x + corner_radius_px, y + corner_radius_px>>
        r1 == round_a_corner(Ok(image), Range(x, top_left_center[1]), Range(y, top_left_center[2]),
                             corner_radius_px, top_left_center)
        r2 == IF checks /\ under_x /\ r1.tag = "Ok" THEN Panic
              ELSE round_a_corner(r1, right_range, Range(y, y + corner_radius_px),
                                  corner_radius_px, <<far_x, y + corner_radius_px>>)
        r3 == IF checks /\ under_y /\ r2.tag = "Ok" THEN Panic
              ELSE round_a_corner(r2, Range(x, x + corner_radius_px), bottom_range,
                                  corner_radius_px, <<x + corner_radius_px, far_y>>)
    IN  round_a_corner(r3, right_range, bottom_range, corner_radius_px, <<far_x, far_y>>)

-----------------------------------------------------------------------------
(* src/src/lib.rs: find_bounding_boxes *)

\* The while loop of scan_horiz, from column edge.
RECURSIVE scan_horiz_from(_, _, _)
scan_horiz_from(image, edge, delta) ==
    IF ~(edge >= 0 /\ edge < image.width) THEN Err("Unknown")
    ELSE IF \A y \in 0..(image.height - 1) : Alpha(image.px[<<edge, y>>]) = 0 THEN Ok(edge)
    ELSE scan_horiz_from(image, edge + delta, delta)

\* Mutant of scan_horiz: the scan starts one column away from the centre.
scan_horiz_skip(image, center, delta) == scan_horiz_from(image, center[1] + delta, delta)

scan_horiz(image, center, delta) == scan_horiz_from(image, center[1], delta)

RECURSIVE scan_vert_from(_, _, _)
scan_vert_from(image, edge, delta) ==
    IF ~(edge >= 0 /\ edge < image.height) THEN Err("Unknown")
    ELSE IF \A x \in 0..(image.width - 1) : Alpha(image.px[<<x, edge>>]) = 0 THEN Ok(edge)
    ELSE scan_vert_from(image, edge + delta, delta)

scan_vert(image, center, delta) == scan_vert_from(image, center[2], delta)

find_bounding_boxes(image) ==
    LET bounds == <<0, 0, image.width, image.height>>
        center == <<(bounds[1] + bounds[3]) \div 2, (bounds[2] + bounds[4]) \div 2>>
        left_edge == scan_horiz(image, center, -1)
        right_edge == scan_horiz(image, center, 1)
        top_edge == scan_vert(image, center, -1)
        bottom_edge == scan_vert(image, center, 1)
    IN  IF left_edge.tag # "Ok" THEN left_edge
        ELSE IF right_edge.tag # "Ok" THEN right_edge
        ELSE IF top_edge.tag # "Ok" THEN top_edge
        ELSE IF bottom_edge.tag # "Ok" THEN bottom_edge
        ELSE Ok(<<Rect(left_edge.val, top_edge.val,
                       right_edge.val - left_edge.val + 1,
                       bottom_edge.val - top_edge.val + 1)>>)

-----------------------------------------------------------------------------
(* src/src/lib.rs: extract_images_from_image_grid *)

corner_radius == 37
default_max_width == 750
background_color == Px(2, 1)

\* put_pixel panics outside the image; rect.y + rect.height - 1 and
\* rect.x + rect.width - 1 are u32 subtractions.
draw_rect_panics(image, rect, checks) ==
    LET xs == rect.x..(rect.x + rect.width - 1)
        ys == rect.y..(rect.y + rect.height - 1)
        bottom == rect.y + rect.height - 1
        right == rect.x + rect.width - 1
        drawn == (xs \X {rect.y}) \cup (IF bottom >= 0 THEN xs \X {bottom} ELSE {})
                 \cup ({rect.x} \X ys) \cup (IF right >= 0 THEN {right} \X ys ELSE {})
    IN  \/ checks /\ (bottom < 0 \/ right < 0)
        \/ \E p \in drawn : p[1] >= image.width \/ p[2] >= image.height

\* The body of the loop over the cells up to the save: Panic, or the image
\* handed to rescale_to_72dpi_1in (whose resize changes no state modelled).
cell_image(image, rect, a, checks) ==
    LET new_image == make_sub_image(image, rect, background_color)
        new_image_bounds == <<0, 0, new_image.width, new_image.height>>
        scaled_image == scale_to_constraints(new_image, new_image_bounds,
                                             a.aspect_ratio, a.max_width)
    IN  round_the_corners(scaled_image, corner_radius, checks)

gridVars == <<pc, located, widths, cells, debug_written, files, result>>
inputVars == <<img, overflow_checks, args>>
bboxVars == <<bbox>>
roundVars == <<radius, rounded>>
fitVars == <<fit_in, fit_out>>
rangeVars == <<h_blank, v_blank, h_ranges, v_ranges, rects>>
otherVars == <<bboxVars, roundVars, fitVars, rangeVars>>

\* let cells = find_grid_cells(img)?;
FindGridCells ==
    /\ pc = "start"
    /\ LET bb == find_bordered_bounds(img)
           bw == border_widths_of(img, bb, overflow_checks)
           r == find_grid_cells(img, overflow_checks)
       IN  /\ located' = bb
           /\ widths' = bw
           /\ cells' = r
           /\ pc' = IF r.tag = "Ok" THEN "debug" ELSE IF r.tag = "Err" THEN "done" ELSE "panicked"
           /\ result' = IF r.tag = "Ok" THEN result ELSE r
    /\ UNCHANGED <<debug_written, files, inputVars, otherVars>>

\* output_debug_image(img, &cells)?; the save succeeds or fails with ImageError.
OutputDebugImage ==
    /\ pc = "debug"
    /\ IF \E k \in DOMAIN cells.val : draw_rect_panics(img, cells.val[k], overflow_checks)
       THEN pc' = "panicked" /\ result' = Panic /\ UNCHANGED debug_written
       ELSE \E saved \in BOOLEAN :
              IF saved
              THEN debug_written' = TRUE /\ pc' = "loop" /\ UNCHANGED result
              ELSE pc' = "done" /\ result' = Err("ImageError") /\ UNCHANGED debug_written
    /\ UNCHANGED <<located, widths, cells, files, inputVars, otherVars>>

\* One iteration of `for (i, rect) in cells.iter().enumerate()`.
ProcessCell ==
    /\ pc = "loop"
    /\ Len(files) < Len(cells.val)
    /\ LET i == Len(files)
           out == cell_image(img, cells.val[i + 1], args, overflow_checks)
       IN  IF out.tag = "Panic"
           THEN pc' = "panicked" /\ result' = Panic /\ UNCHANGED files
           ELSE \E saved \in BOOLEAN :
                  IF saved
                  THEN files' = Append(files, i) /\ UNCHANGED <<pc, result>>
                  ELSE pc' = "done" /\ result' = Err("ImageError") /\ UNCHANGED files
    /\ UNCHANGED <<located, widths, cells, debug_written, inputVars, otherVars>>

\* Ok(()) after the loop.
ReturnOk ==
    /\ pc = "loop"
    /\ Len(files) = Len(cells.val)
    /\ pc' = "done"
    /\ result' = Ok(<<>>)
    /\ UNCHANGED <<located, widths, cells, debug_written, files, inputVars, otherVars>>

-----------------------------------------------------------------------------
(* Input images *)

\* Every image of at most MaxPixels pixels, each pixel Clear or Ink.
SmallImages ==
    UNION {{Image(w, h, px) : px \in [Coords(w, h) -> {Clear, Ink}]} :
              <<w, h>> \in {d \in (1..MaxPixels) \X (1..MaxPixels) : d[1] * d[2] <= MaxPixels}}

\* A grid sheet: cols x rows cells of cw x ch transparent pixels, an opaque
\* border and opaque lines of thickness t, a transparent margin m around it.
GridSheet(cols, rows, t, cw, ch, m) ==
    LET sw == cols * cw + (cols + 1) * t
        sh == rows * ch + (rows + 1) * t
        w == sw + 2 * m
        h == sh + 2 * m
    IN  Image(w, h, [p \in Coords(w, h) |->
            LET sx == p[1] - m
                sy == p[2] - m
            IN  IF /\ sx >= 0 /\ sx < sw /\ sy >= 0 /\ sy < sh
                   /\ (sx % (cw + t) < t \/ sy % (ch + t) < t)
                THEN Ink ELSE Clear])

GridDims == 1..3

Sheets ==
    {GridSheet(c, r, t, cw, ch, m) :
        c \in GridDims, r \in GridDims, t \in 1..MaxT,
        cw \in 1..MaxCell, ch \in 1..MaxCell, m \in 0..MaxMargin}

\* A one-cell sheet whose cell is as large as the corner radius, the
\* smallest on which the per-cell pipeline does not panic.
PrintSheet == GridSheet(1, 1, 1, corner_radius, corner_radius, 0)

ExtractArgs ==
    {[aspect_ratio |-> <<q, 4>>, max_width |-> default_max_width] : q \in {4, 6}}

-----------------------------------------------------------------------------
(* Spec: extract_images_from_image_grid on one image *)

Init ==
    /\ img \in SmallImages \cup Sheets \cup {PrintSheet}
    /\ overflow_checks \in BOOLEAN
    /\ args \in ExtractArgs
    /\ pc = "start"
    /\ located = None /\ widths = None /\ cells = None
    /\ debug_written = FALSE
    /\ files = <<>>
    /\ result = None
    /\ bbox = None /\ radius = 0 /\ rounded = None
    /\ fit_in = None /\ fit_out = None
    /\ h_blank = <<>> /\ v_blank = <<>> /\ h_ranges = <<>> /\ v_ranges = <<>> /\ rects = <<>>

Next == FindGridCells \/ OutputDebugImage \/ ProcessCell \/ ReturnOk

Spec == Init /\ [][Next]_vars

-----------------------------------------------------------------------------
(* Claims about grid detection and extraction, checked under Spec *)

AllTransparent(image) == \A p \in DOMAIN image.px : Alpha(image.px[p]) = 0

EdgeNames == {"left", "top", "right", "bottom"}

\* The parameters <<t, cw, ch, m>> for which img is the cols x rows sheet.
SheetParams(cols, rows) ==
    {q \in (1..MaxT) \X (1..MaxCell) \X (1..MaxCell) \X (0..MaxMargin) :
        /\ img.width = cols * q[2] + (cols + 1) * q[1] + 2 * q[4]
        /\ img.height = rows * q[3] + (rows + 1) * q[1] + 2 * q[4]
        /\ img = GridSheet(cols, rows, q[1], q[2], q[3], q[4])}

\* The transparent interiors of a sheet's cells, in row-major order.
SheetCells(cols, rows, q) ==
    [k \in 1..(cols * rows) |->
        Rect(q[4] + q[1] + ((k - 1) % cols) * (q[2] + q[1]),
             q[4] + q[1] + ((k - 1) \div cols) * (q[3] + q[1]),
             q[2], q[3])]

\* C1 (as stated): on a sheet of 2 columns by 3 rows, find_grid_cells
\* returns Ok with the 6 cell interiors in row-major order, and a run of
\* extract_images_from_image_grid that returns Ok has written the files
\* 0 to 5 in that order.
C1_EndToEnd ==
    \A q \in SheetParams(2, 3) :
        /\ pc # "start" => cells = Ok(SheetCells(2, 3, q))
        /\ (pc = "done" /\ result.tag = "Ok") => files = <<0, 1, 2, 3, 4, 5>>

\* C2: on an all-transparent image nothing is ever written (neither
\* DEBUG.png nor a cell file), and extract_images_from_image_grid returns
\* the MissingBorder error of find_grid_cells, naming one of the four edges.
C2_MissingBorderWritesNothing ==
    AllTransparent(img) =>
        /\ pc \in {"start", "done"}
        /\ ~debug_written
        /\ files = <<>>
        /\ pc = "done" =>
              /\ result.tag = "Err"
              /\ result.err = "MissingBorder"
              /\ result.edge \in EdgeNames
              /\ cells = result

C2_Witness ==
    /\ AllTransparent(img)
    /\ img.width >= 2 /\ img.height >= 2
    /\ pc = "done"
    /\ result.tag = "Err" /\ result.err = "MissingBorder"

\* What C8 says find_border_widths returns: scans along the centreline of
\* the bounds rectangle, thicknesses measured from the edges of the bounds.
ClaimedBorderWidths(image, bounds) ==
    LET cx == bounds.x + bounds.width \div 2
        cy == bounds.y + bounds.height \div 2
        blankY == {yy \in bounds.y..(bounds.y + bounds.height - 1) : transparent_pixel(image, cx, yy)}
        blankX == {xx \in bounds.x..(bounds.x + bounds.width - 1) : transparent_pixel(image, xx, cy)}
        lo(S) == CHOOSE a \in S : \A b \in S : a <= b
        hi(S) == CHOOSE a \in S : \A b \in S : a >= b
    IN  IF blankY = {} \/ blankX = {} THEN Err("BlankNotFound")
        ELSE Ok(<<lo(blankX) - bounds.x, lo(blankY) - bounds.y,
                  (bounds.x + bounds.width - 1) - hi(blankX),
                  (bounds.y + bounds.height - 1) - hi(blankY)>>)

\* C8 (as stated): whatever bounds find_bordered_bounds located, the widths
\* find_border_widths returns are those measured along the centreline of
\* the bounds, from the edges of the bounds, without underflow.
C8_BorderWidths ==
    (pc # "start" /\ located.tag = "Ok") => widths = ClaimedBorderWidths(img, located.val)

\* The edge whose scan finds no non-blank pixel, in the order of the scans.
FailingEdge(image) ==
    IF \A xx \in 0..(image.width - 1) : transparent_pixel(image, xx, image.height \div 2)
    THEN "left" ELSE "top"

\* C9 (as stated): a MissingBorder error names the edge whose scan failed;
\* an entirely transparent centre row is reported as "left".
C9_EdgeName ==
    (pc # "start" /\ located.tag = "Err") =>
        /\ located.err = "MissingBorder"
        /\ located.edge = FailingEdge(img)

-----------------------------------------------------------------------------
(* SpecRanges: the Grid Line Segmenter and the cell generator on blank     *)
(* patterns.  A pattern is the is_blank closure as a function on the       *)
(* scanned range lo..hi.                                                   *)

Patterns(starts) ==
    UNION {[lo..(lo + n - 1) -> BOOLEAN] : <<lo, n>> \in starts \X (0..MaxLen)}

\* The range a pattern is scanned over.
RangeOf(f) ==
    IF DOMAIN f = {} THEN <<>>
    ELSE LET lo == CHOOSE a \in DOMAIN f : \A b \in DOMAIN f : a <= b
         IN  Range(lo, lo + Cardinality(DOMAIN f))

InitRanges ==
    /\ h_blank \in Patterns({1})
    /\ v_blank \in Patterns({0, 2})
    /\ h_ranges = <<>> /\ v_ranges = <<>> /\ rects = <<>>
    /\ pc = "start"
    /\ img = None /\ overflow_checks = FALSE /\ args = None
    /\ located = None /\ widths = None /\ cells = None
    /\ debug_written = FALSE /\ files = <<>> /\ result = None
    /\ bbox = None /\ radius = 0 /\ rounded = None
    /\ fit_in = None /\ fit_out = None

\* The two find_grid_line_ranges calls of find_grid_cells.
SegmentLines ==
    /\ pc = "start"
    /\ v_ranges' = find_grid_line_ranges(RangeOf(v_blank), v_blank)
    /\ h_ranges' = find_grid_line_ranges(RangeOf(h_blank), h_blank)
    /\ pc' = "segmented"
    /\ UNCHANGED <<h_blank, v_blank, rects, inputVars, located, widths, cells,
                   debug_written, files, result, bboxVars, roundVars, fitVars>>

\* The loops of find_grid_cells over the two range lists.
GenerateCells ==
    /\ pc = "segmented"
    /\ rects' = grid_rects(h_ranges, v_ranges)
    /\ pc' = "generated"
    /\ UNCHANGED <<h_blank, v_blank, h_ranges, v_ranges, inputVars, located, widths, cells,
                   debug_written, files, result, bboxVars, roundVars, fitVars>>

NextRanges == SegmentLines \/ GenerateCells

SpecRanges == InitRanges /\ [][NextRanges]_vars

\* The ranges R are exactly the maximal runs of non-blank coordinates of f.
MaximalRuns(R, f) ==
    /\ \A i \in DOMAIN R : R[i].start < R[i].end
    /\ \A i \in 1..(Len(R) - 1) : R[i].end < R[i + 1].start
    /\ UNION {R[i].start..(R[i].end - 1) : i \in DOMAIN R} = {c \in DOMAIN f : ~f[c]}
    /\ (\A c \in DOMAIN f : f[c]) => R = <<>>

\* C7: find_grid_line_ranges returns the maximal contiguous runs of
\* non-blank coordinates: start < end, strictly ascending, separated by at
\* least one blank coordinate, covering exactly the non-blank coordinates,
\* and empty for an all-blank or empty input.
C7_MaximalRuns ==
    pc # "start" => MaximalRuns(v_ranges, v_blank) /\ MaximalRuns(h_ranges, h_blank)

C7_Witness ==
    /\ pc = "segmented"
    /\ Len(v_ranges) = 2
    /\ v_ranges[1].end - v_ranges[1].start = 2
    /\ v_ranges[2].start - v_ranges[1].end = 2
    /\ Len(h_ranges) = 3

Pred(n) == IF n > 0 THEN n - 1 ELSE 0

\* C3: the generator yields max(H-1,0) * max(V-1,0) cells, the one at
\* index r*(V-1)+c being the gap between vertical ranges c, c+1 and
\* horizontal ranges r, r+1 (row-major); fewer than two ranges on an axis
\* yields the empty list.
C3_CellRects ==
    pc = "generated" =>
        LET H == Len(h_ranges)
            V == Len(v_ranges)
        IN  /\ Len(rects) = Pred(H) * Pred(V)
            /\ \A r \in 0..(H - 2) : \A c \in 0..(V - 2) :
                  rects[r * (V - 1) + c + 1] =
                      Rect(v_ranges[c + 1].end, h_ranges[r + 1].end,
                           v_ranges[c + 2].start - v_ranges[c + 1].end,
                           h_ranges[r + 2].start - h_ranges[r + 1].end)
            /\ (H < 2 \/ V < 2) => rects = <<>>

C3_Witness ==
    /\ pc = "generated"
    /\ Len(h_ranges) = 3 /\ Len(v_ranges) = 3
    /\ Len(rects) = 4
    /\ rects[2] # rects[3]

-----------------------------------------------------------------------------
(* SpecFit: the Aspect-Ratio Fitter on the bounds (0, 0, width, height) *)

FitInputs ==
    [width : 1..MaxAvail, height : 1..MaxAvail, max_width : 1..(MaxAvail + 1),
     aspect_ratio : {<<q, 4>> : q \in 1..MaxRatioQ}]

InitFit ==
    /\ fit_in \in FitInputs
    /\ fit_out = None
    /\ pc = "start"
    /\ img = None /\ overflow_checks = FALSE /\ args = None
    /\ located = None /\ widths = None /\ cells = None
    /\ debug_written = FALSE /\ files = <<>> /\ result = None
    /\ bbox = None /\ radius = 0 /\ rounded = None
    /\ h_blank = <<>> /\ v_blank = <<>> /\ h_ranges = <<>> /\ v_ranges = <<>> /\ rects = <<>>

ScaleToConstraints ==
    /\ pc = "start"
    /\ fit_out' = new_bounds(<<0, 0, fit_in.width, fit_in.height>>,
                             fit_in.aspect_ratio, fit_in.max_width)
    /\ pc' = "done"
    /\ UNCHANGED <<fit_in, inputVars, located, widths, cells, debug_written, files, result,
                   bboxVars, roundVars, rangeVars>>

NextFit == ScaleToConstraints

SpecFit == InitFit /\ [][NextFit]_vars

\* width * aspect_ratio truncated toward zero, and rounded to nearest
\* (f64::round, halves away from zero).
Truncated(width, ar) == (width * ar[1]) \div ar[2]
Rounded(width, ar) == (2 * width * ar[1] + ar[2]) \div (2 * ar[2])

\* The shrink branch is taken: the computed target height exceeds the
\* available height.
Shrinks(f) == Truncated(Min(f.width, f.max_width), f.aspect_ratio) > f.height

\* C4 (as stated): without shrink, output width = min(available width,
\* max_width) <= max_width and output height = round(width * aspect_ratio).
C4_RoundedHeight ==
    (pc = "done" /\ ~Shrinks(fit_in)) =>
        /\ fit_out.width = Min(fit_in.width, fit_in.max_width)
        /\ fit_out.width <= fit_in.max_width
        /\ fit_out.height = Rounded(fit_out.width, fit_in.aspect_ratio)

\* C4 (amended): without shrink, output width = min(available width,
\* max_width) <= max_width and output height = width * aspect_ratio
\* truncated toward zero.
C4_TruncatedHeight ==
    (pc = "done" /\ ~Shrinks(fit_in)) =>
        /\ fit_out.width = Min(fit_in.width, fit_in.max_width)
        /\ fit_out.width <= fit_in.max_width
        /\ fit_out.height = Truncated(fit_out.width, fit_in.aspect_ratio)

C4_Witness ==
    /\ pc = "done"
    /\ ~Shrinks(fit_in)
    /\ fit_in.max_width < fit_in.width
    /\ fit_out.height >= 2
    /\ fit_out.height # Rounded(fit_out.width, fit_in.aspect_ratio)

\* C10 (as stated): in the shrink case the box is non-empty and inside the
\* available bounds.
C10_ShrinkNonEmpty ==
    (pc = "done" /\ Shrinks(fit_in)) =>
        /\ fit_out.width >= 1 /\ fit_out.height >= 1
        /\ fit_out.width <= fit_in.width /\ fit_out.height <= fit_in.height

-----------------------------------------------------------------------------
(* SpecRound: the Corner Rounder *)

\* Images of distinct opaque pixels, one of which may be replaced by hole.
RoundImages ==
    UNION {{Image(d[1], d[2], [p \in Coords(d[1], d[2]) |->
                IF p = at THEN hole ELSE Px(1 + p[1] + d[1] * p[2], 1)]) :
                    at \in Coords(d[1], d[2]), hole \in {Clear, Px(1, 0), Ink}} :
              d \in (1..MaxDim) \X (1..MaxDim)}

InitRound ==
    /\ img \in RoundImages
    /\ radius \in 0..MaxDim
    /\ overflow_checks \in BOOLEAN
    /\ rounded = None
    /\ pc = "start"
    /\ args = None
    /\ located = None /\ widths = None /\ cells = None
    /\ debug_written = FALSE /\ files = <<>> /\ result = None
    /\ bbox = None
    /\ fit_in = None /\ fit_out = None
    /\ h_blank = <<>> /\ v_blank = <<>> /\ h_ranges = <<>> /\ v_ranges = <<>> /\ rects = <<>>

RoundTheCorners ==
    /\ pc = "start"
    /\ rounded' = round_the_corners(img, radius, overflow_checks)
    /\ pc' = "done"
    /\ UNCHANGED <<radius, inputVars, located, widths, cells, debug_written, files, result,
                   bboxVars, fitVars, rangeVars>>

NextRound == RoundTheCorners

SpecRound == InitRound /\ [][NextRound]_vars

\* p lies in one of the four r x r corner quadrants of a w x h image, farther
\* than r from that corner's centre (r pixels in from both edges).
OutsideCorner(p, w, h, r) ==
    LET far(cx, cy) == (p[1] - cx) * (p[1] - cx) + (p[2] - cy) * (p[2] - cy) > r * r
    IN  \/ p[1] < r /\ p[2] < r /\ far(r, r)
        \/ p[1] >= w - r /\ p[2] < r /\ far(w - r, r)
        \/ p[1] < r /\ p[2] >= h - r /\ far(r, h - r)
        \/ p[1] >= w - r /\ p[2] >= h - r /\ far(w - r, h - r)

\* C5: for 0 <= r <= min(w,h)/2 round_the_corners returns an image of the
\* same dimensions in which the pixels of the corner quadrants farther than
\* r from the corner's centre are all-zero and every other pixel is the
\* input pixel; for r = 0 the output is the input.
C5_RoundedCorners ==
    (pc = "done" /\ radius <= Min(img.width, img.height) \div 2) =>
        /\ rounded.tag = "Ok"
        /\ rounded.val.width = img.width /\ rounded.val.height = img.height
        /\ DOMAIN rounded.val.px = DOMAIN img.px
        /\ \A p \in DOMAIN img.px :
              rounded.val.px[p] =
                  IF OutsideCorner(p, img.width, img.height, radius) THEN Clear ELSE img.px[p]
        /\ radius = 0 => rounded.val = img

C5_Witness ==
    /\ pc = "done"
    /\ radius = 2 /\ img.width = 5 /\ img.height = 4
    /\ rounded.tag = "Ok"
    /\ rounded.val.px[<<0, 0>>] = Clear /\ img.px[<<0, 0>>] # Clear
    /\ rounded.val.px[<<3, 0>>] = img.px[<<3, 0>>]
    /\ rounded.val.px[<<4, 0>>] = Clear
    /\ rounded.val.px[<<2, 0>>] # Clear

-----------------------------------------------------------------------------
(* SpecBBox: find_bounding_boxes *)

InitBBox ==
    /\ img \in SmallImages
    /\ bbox = None
    /\ pc = "start"
    /\ overflow_checks = FALSE /\ args = None
    /\ located = None /\ widths = None /\ cells = None
    /\ debug_written = FALSE /\ files = <<>> /\ result = None
    /\ radius = 0 /\ rounded = None
    /\ fit_in = None /\ fit_out = None
    /\ h_blank = <<>> /\ v_blank = <<>> /\ h_ranges = <<>> /\ v_ranges = <<>> /\ rects = <<>>

FindBoundingBoxes ==
    /\ pc = "start"
    /\ bbox' = find_bounding_boxes(img)
    /\ pc' = "done"
    /\ UNCHANGED <<inputVars, located, widths, cells, debug_written, files, result,
                   roundVars, fitVars, rangeVars>>

NextBBox == FindBoundingBoxes

SpecBBox == InitBBox /\ [][NextBBox]_vars

ClearColumns(image) ==
    {c \in 0..(image.width - 1) : \A y \in 0..(image.height - 1) : Alpha(image.px[<<c, y>>]) = 0}
ClearRows(image) ==
    {r \in 0..(image.height - 1) : \A x \in 0..(image.width - 1) : Alpha(image.px[<<x, r>>]) = 0}
Greatest(S) == CHOOSE a \in S : \A b \in S : a >= b
Least(S) == CHOOSE a \in S : \A b \in S : a <= b

====
